---- MODULE Spec2Model ----
(***************************************************************************)
(* Bayesian-Particle-Tracking: the likelihood / prior / posterior engine   *)
(* of model.py and the estimators of data_analysis.py.                     *)
(*                                                                         *)
(* Number representation.  The code works on IEEE doubles.  Here a real    *)
(* quantity is an exact rational [n, d] (positions, variances, D), and a   *)
(* log-probability is a float value record                                 *)
(*      [kind, c, P, S, J]                                                 *)
(* with kind in {"fin", "pinf", "ninf", "nan"}; a finite one stands for    *)
(*      -(c/2)*log(2*pi) - (1/2)*log(P) - S + (sum of the prior terms J)   *)
(* so that two finite values with the same c are equal as reals exactly    *)
(* when their records are equal.  Rounding error of the doubles is not     *)
(* modelled.  Physical magnitudes (1e-12, 1.38e-23, ...) are replaced by   *)
(* small stand-ins of the same sign and order.                             *)
(***************************************************************************)
EXTENDS Integers, Sequences, FiniteSets, TLC

VARIABLES obj, call, ret, evals

vars == <<obj, call, ret, evals>>

(***************************************************************************)
(* Bounds of the model.                                                    *)
(***************************************************************************)
MaxN == 3        \* trajectories have 2..MaxN records
MaxTheta == 4    \* candidate values of the unknown range over -1..MaxTheta
MaxTau == 1      \* time constants range over 1..MaxTau
MaxPhys == 2     \* mu, T, a range over -1..MaxPhys
MaxKnown == 1    \* known variables range over 1..MaxKnown
MaxLag == 6      \* lags and maximum lags range up to MaxLag
MaxStride == 2   \* down-sampling strides range over 1..MaxStride
MaxGrid == 3     \* grids have 0..MaxGrid points
MaxExp == 1      \* log10 grid bounds range over 0..MaxExp
MaxDrop == 3     \* log-likelihoods range over -MaxDrop..0 quarter units
MaxDim == 4      \* raw tables carry 1..MaxDim spatial coordinates
MaxOffset == 1   \* translation offsets range over 0..MaxOffset

(***************************************************************************)
(* Exact rationals: the arithmetic of the Python / numpy expressions.      *)
(***************************************************************************)
Abs(i) == IF i < 0 THEN -i ELSE i

RECURSIVE GCD(_, _)
GCD(a, b) == IF b = 0 THEN a ELSE GCD(b, a % b)

\* n/d in lowest terms with a positive denominator (d # 0)
Rat(n, d) ==
    LET g == GCD(Abs(n), Abs(d))
        s == IF d < 0 THEN -1 ELSE 1
    IN  [n |-> (s * n) \div g, d |-> (s * d) \div g]

RInt(i) == [n |-> i, d |-> 1]

RAdd(a, b) == Rat(a.n * b.d + b.n * a.d, a.d * b.d)

RMul(a, b) == Rat(a.n * b.n, a.d * b.d)

\* a / b for b # 0
RDiv(a, b) == Rat(a.n * b.d, a.d * b.n)

RLess(a, b) == a.n * b.d < b.n * a.d

RLeq(a, b) == a.n * b.d <= b.n * a.d

(***************************************************************************)
(* Float values of log-probabilities.                                      *)
(***************************************************************************)
Fin(c, P, S, J) == [kind |-> "fin", c |-> c, P |-> P, S |-> S, J |-> J]

Special(k) == [kind |-> k, c |-> 0, P |-> RInt(1), S |-> RInt(0), J |-> <<>>]

NInf == Special("ninf")

PInf == Special("pinf")

NaN == Special("nan")

\* IEEE addition of two log-probabilities
FAdd(a, b) ==
    IF a.kind = "nan" \/ b.kind = "nan" THEN NaN
    ELSE IF a.kind = "fin" /\ b.kind = "fin"
         THEN Fin(a.c + b.c, RMul(a.P, b.P), RAdd(a.S, b.S), a.J \o b.J)
    ELSE IF a.kind = "fin" THEN b
    ELSE IF b.kind = "fin" THEN a
    ELSE IF a.kind = b.kind THEN a
    ELSE NaN

\* IEEE ==: NaN equals nothing
FEq(a, b) == a.kind # "nan" /\ b.kind # "nan" /\ a = b

\* outcomes of a call
Return(v) == [status |-> "return", exc |-> "", value |-> v]

Raise(e) == [status |-> "raise", exc |-> e, value |-> NaN]

(***************************************************************************)
(* Trajectories.  A table is a sequence of rows, a row a sequence of       *)
(* numbers; column j of the code (0-based) is entry j+1 of a row.          *)
(***************************************************************************)
Column(data, j) == [k \in 1..Len(data) |-> data[k][j + 1]]

\* diffusion.__init__: the object, or the IndexError of a missing column
diffusion(data) ==
    IF Len(data[1]) < 4
    THEN [ok |-> FALSE, data |-> data, n |-> Len(data), initial_position |-> data[1],
          x |-> <<>>, y |-> <<>>, z |-> <<>>, sigma |-> <<>>]
    ELSE [ok |-> TRUE, data |-> data, n |-> Len(data), initial_position |-> data[1],
          x |-> Column(data, 0), y |-> Column(data, 1), z |-> Column(data, 2),
          sigma |-> Column(data, 3)]

\* diffusion.translate: a new object of four columns, the original untouched
translate(self, offset) ==
    diffusion([k \in 1..self.n |->
        <<self.x[k] + offset, self.y[k] + offset, self.z[k] + offset, self.sigma[k]>>])

(***************************************************************************)
(* Priors (prior.py is not part of the examined source: modelled from the  *)
(* interface the specification gives, -infinity outside the open support). *)
(***************************************************************************)
JeffreysPrior_lnprob(lower, upper, v) ==
    IF RLess(RInt(lower), v) /\ RLess(v, RInt(upper))
    THEN Fin(0, RInt(1), RInt(0), << <<"Jeffreys", lower, upper, v>> >>)
    ELSE NInf

UniformPrior_lnprob(lower, upper, v) ==
    IF RLess(RInt(lower), v) /\ RLess(v, RInt(upper))
    THEN Fin(0, RInt(1), RInt(0), << <<"Uniform", lower, upper, v>> >>)
    ELSE NInf

\* stand-ins for the default bounds 10**(-12) and 10**(-8) of log_prior
lower_bound == 1
upper_bound == 4

log_prior(D) == JeffreysPrior_lnprob(lower_bound, upper_bound, D)

\* stand-ins for the supports of log_prior3: mu in (1e-6, 1e-2), T in
\* (273, 400), a in (1e-10, 1e-6)
mu_lower == 0
mu_upper == 2
T_lower == 0
T_upper == 3
a_lower == 0
a_upper == 2

log_prior3(theta) ==
    LET mu == theta[1]
        T == theta[2]
        a == theta[3]
        mu_prior == JeffreysPrior_lnprob(mu_lower, mu_upper, mu)
        T_prior == UniformPrior_lnprob(T_lower, T_upper, T)
        a_prior == JeffreysPrior_lnprob(a_lower, a_upper, a)
    IN  IF mu.n > 0 /\ T.n > 0 /\ a.n > 0
        THEN FAdd(FAdd(mu_prior, T_prior), a_prior)
        ELSE NInf

(***************************************************************************)
(* A physical quantity as a double: a rational, an infinity or NaN.        *)
(***************************************************************************)
Dbl(q) == [kind |-> "fin", q |-> q]

DblSpecial(k) == [kind |-> k, q |-> RInt(0)]

\* stand-in for kb/pi (kb = 1.38e-23), so that D = kb_over_pi*T/(6*mu*a)
kb_over_pi == 3

\* D = (kb*T)/(6*np.pi*mu*a).  Python floats raise on a zero denominator;
\* numpy floats (np_theta) give a signed infinity or NaN instead.
StokesEinstein(mu, T, a, np_theta) ==
    IF mu.n # 0 /\ a.n # 0
    THEN Return(Dbl(RDiv(RMul(RInt(kb_over_pi), T), RMul(RInt(6), RMul(mu, a)))))
    ELSE IF ~np_theta THEN Raise("ZeroDivisionError")
    ELSE LET negzero == (mu.n < 0) # (a.n < 0)
         IN  IF T.n = 0 THEN Return(DblSpecial("nan"))
             ELSE IF (T.n < 0) # negzero THEN Return(DblSpecial("ninf"))
             ELSE Return(DblSpecial("pinf"))

(***************************************************************************)
(* The Gaussian log-likelihood expression shared by both implementations.  *)
(***************************************************************************)
RECURSIVE RProd(_)
RProd(s) == IF s = <<>> THEN RInt(1) ELSE RMul(Head(s), RProd(Tail(s)))

RECURSIVE RSum(_)
RSum(s) == IF s = <<>> THEN RInt(0) ELSE RAdd(Head(s), RSum(Tail(s)))

\* squared distances between consecutive rows, over columns 0, 1, 2
distance2(data) ==
    [k \in 1..(Len(data) - 1) |->
        (data[k][1] - data[k + 1][1]) * (data[k][1] - data[k + 1][1])
      + (data[k][2] - data[k + 1][2]) * (data[k][2] - data[k + 1][2])
      + (data[k][3] - data[k + 1][3]) * (data[k][3] - data[k + 1][3])]

\* (-len(data)/2)*log(2*pi) + sum(log((sigma1**2+sigma**2)**(-1/2)))
\*                          + sum(-distance**2/(2*(sigma1**2+sigma**2)))
\* for D = sigma1**2/(6*tau) a double; sigma and dist2 have equal lengths
result_expr(n, D, tau, sigma, dist2) ==
    IF D.kind = "nan" THEN NaN
    ELSE IF D.kind = "fin" /\ RLess(D.q, RInt(0)) THEN NaN   \* sqrt of a negative
    ELSE IF sigma = <<>> THEN Fin(n, RInt(1), RInt(0), <<>>)
    ELSE IF D.kind = "pinf" THEN NInf    \* log(inf**(-1/2)) = -inf, -d/inf = -0
    ELSE LET var == [k \in 1..Len(sigma) |->
                        RAdd(RMul(RInt(6 * tau), D.q), RInt(sigma[k] * sigma[k]))]
             quad == [k \in 1..Len(sigma) |->
                        RDiv(RInt(dist2[k]), RMul(RInt(2), var[k]))]
         IN  IF \E k \in 1..Len(sigma) : var[k].n = 0
             THEN NaN                    \* log(0**(-1/2)) = +inf meets -d/0
             ELSE Fin(n, RProd(var), RSum(quad), <<>>)

(***************************************************************************)
(* model.py: the likelihoods and posteriors.  Physical arguments are       *)
(* rationals; np_theta says that theta arrives as numpy floats (as a       *)
(* sampler passes it) rather than as Python floats.                        *)
(***************************************************************************)
ValidParameters == {"D", "a", "mu", "T"}

log_likelihood(theta, diffusion_object, tau, parameter, known_variables, np_theta) ==
    LET derived ==
            IF parameter = "a"
            THEN StokesEinstein(known_variables[1], known_variables[2], theta, np_theta)
            ELSE IF parameter = "mu"
            THEN StokesEinstein(theta, known_variables[2], known_variables[1], np_theta)
            ELSE IF parameter = "T"
            THEN StokesEinstein(known_variables[2], theta, known_variables[1], np_theta)
            ELSE Return(Dbl(theta))
        D == Dbl(theta)                   \* line 87 overwrites the derived D
        data == diffusion_object.data
        sigma == SubSeq(diffusion_object.sigma, 1, Len(diffusion_object.sigma) - 1)
    IN  IF parameter \notin ValidParameters THEN Raise("ValueError")
        ELSE IF derived.status = "raise" THEN derived
        ELSE Return(result_expr(Len(data), D, tau, sigma, distance2(data)))

log_likelihood3(theta, diffusion_object, tau, np_theta) ==
    LET mu == theta[1]
        T == theta[2]
        a == theta[3]
        data0 == diffusion_object.data
        sigma == Tail(diffusion_object.sigma)
        derived == StokesEinstein(mu, T, a, np_theta)
        D == derived.value
        \* data = data - data[0], row by row
        data == [k \in 1..Len(data0) |->
                    [j \in 1..Len(data0[k]) |-> data0[k][j] - data0[1][j]]]
    IN  IF derived.status = "raise" THEN derived
        ELSE IF D.kind = "ninf" \/ (D.kind = "fin" /\ RLeq(D.q, RInt(0)))
        THEN Return(NInf)
        ELSE Return(result_expr(Len(data), D, tau, sigma, distance2(data)))

\* log_posterior without the early return on a prior of -infinity
log_posterior_eager(theta, diffusion_object, time_constant, param, known, np_theta) ==
    LET prior == log_prior(theta)
        ll == log_likelihood(theta, diffusion_object, time_constant, param, known,
                             np_theta)
    IN  IF ll.status = "raise" THEN [out |-> ll, evals |-> 1]
        ELSE [out |-> Return(FAdd(prior, ll.value)), evals |-> 1]

\* the value returned or the exception raised, and how many times
\* log_likelihood was evaluated
log_posterior(theta, diffusion_object, time_constant, param, known, np_theta) ==
    LET prior == log_prior(theta)
        ll == log_likelihood(theta, diffusion_object, time_constant, param, known,
                             np_theta)
    IN  IF prior.kind = "ninf" THEN [out |-> Return(prior), evals |-> 0]
        ELSE IF ll.status = "raise" THEN [out |-> ll, evals |-> 1]
        ELSE [out |-> Return(FAdd(prior, ll.value)), evals |-> 1]

log_posterior3(theta, diffusion_object, np_theta) ==
    LET prior == log_prior3(theta)
        ll == log_likelihood3(theta, diffusion_object, 1, np_theta)
    IN  IF ll.status = "raise" THEN ll ELSE Return(FAdd(prior, ll.value))

(***************************************************************************)
(* Inputs.                                                                 *)
(***************************************************************************)
Zero(d) == [j \in 1..d |-> 0]

Ones(d) == [j \in 1..d |-> 1]

Unit(d, i) == [j \in 1..d |-> IF j = i THEN 1 ELSE 0]

\* a step moves one unit along one axis, or not at all
Steps(d) == {Zero(d)} \cup {Unit(d, i) : i \in 1..d}

RECURSIVE Walks(_, _)
Walks(d, n) ==
    IF n = 1 THEN {<<Ones(d)>>}
    ELSE {Append(w, [j \in 1..d |-> w[n - 1][j] + s[j]]) :
            w \in Walks(d, n - 1), s \in Steps(d)}

\* the measurement uncertainties a record may carry ("nonzero float")
Sigmas == {1, 2}

\* rows (x, y, z, sigma) as the docstrings of model.py describe them
Tables3D ==
    UNION {{[k \in 1..n |-> w[k] \o <<sg[k]>>] :
              w \in Walks(3, n), sg \in [1..n -> Sigmas]} : n \in 2..MaxN}

Thetas == {RInt(i) : i \in -1..MaxTheta}

Taus == 1..MaxTau

Phys == {RInt(i) : i \in -1..MaxPhys}

Parameters == ValidParameters \cup {"x"}

Knowns(parameter) ==
    IF parameter = "D" THEN {<<>>}
    ELSE {<<RInt(k1), RInt(k2)>> : k1 \in 1..MaxKnown, k2 \in 1..MaxKnown}

NoCall == [op |-> "none"]

NoRet == [status |-> "none", exc |-> "", value |-> NaN]

(***************************************************************************)
(* The likelihood engine as a state machine: a constructed trajectory and  *)
(* one call made on it.  The functions are pure, so a call leaves nothing  *)
(* behind for a later one: each behaviour is a construction and a call.    *)
(***************************************************************************)
Init ==
    /\ obj \in {diffusion(t) : t \in Tables3D}
    /\ call = NoCall
    /\ ret = NoRet
    /\ evals = 0

LogPrior ==
    /\ call = NoCall
    /\ \E theta \in Thetas :
        /\ call' = [op |-> "log_prior", theta |-> theta]
        /\ ret' = Return(log_prior(theta))
        /\ evals' = 0
        /\ UNCHANGED obj

LogLikelihood ==
    /\ call = NoCall
    /\ \E theta \in Thetas, tau \in Taus, parameter \in Parameters, np_theta \in BOOLEAN :
        \E known \in Knowns(parameter) :
            /\ call' = [op |-> "log_likelihood", theta |-> theta, tau |-> tau,
                        parameter |-> parameter, known |-> known, np_theta |-> np_theta]
            /\ ret' = log_likelihood(theta, obj, tau, parameter, known, np_theta)
            /\ evals' = 1
            /\ UNCHANGED obj

LogPosterior ==
    /\ call = NoCall
    /\ \E theta \in Thetas, tau \in Taus, parameter \in Parameters, np_theta \in BOOLEAN :
        \E known \in Knowns(parameter) :
            LET r == log_posterior(theta, obj, tau, parameter, known, np_theta)
            IN  /\ call' = [op |-> "log_posterior", theta |-> theta, tau |-> tau,
                            parameter |-> parameter, known |-> known,
                            np_theta |-> np_theta]
                /\ ret' = r.out
                /\ evals' = r.evals
                /\ UNCHANGED obj

LogLikelihood3 ==
    /\ call = NoCall
    /\ \E mu \in Phys, T \in Phys, a \in Phys, tau \in Taus, np_theta \in BOOLEAN :
        /\ call' = [op |-> "log_likelihood3", theta |-> <<mu, T, a>>, tau |-> tau,
                    np_theta |-> np_theta]
        /\ ret' = log_likelihood3(<<mu, T, a>>, obj, tau, np_theta)
        /\ evals' = 0
        /\ UNCHANGED obj

LogPosterior3 ==
    /\ call = NoCall
    /\ \E mu \in Phys, T \in Phys, a \in Phys, np_theta \in BOOLEAN :
        /\ call' = [op |-> "log_posterior3", theta |-> <<mu, T, a>>,
                    np_theta |-> np_theta]
        /\ ret' = log_posterior3(<<mu, T, a>>, obj, np_theta)
        /\ evals' = 0
        /\ UNCHANGED obj

Next == LogPrior \/ LogLikelihood \/ LogPosterior \/ LogLikelihood3 \/ LogPosterior3

Spec == Init /\ [][Next]_vars

\* the posterior engine alone
NextPosterior == LogPrior \/ LogPosterior

SpecPosterior == Init /\ [][NextPosterior]_vars

(***************************************************************************)
(* data_analysis.py: mean squared displacement and the CGW estimator.      *)
(***************************************************************************)
\* data[:k] of Python: a negative k counts from the end
SliceTo(data, k) ==
    LET n == Len(data)
        m == IF k >= 0 THEN (IF k < n THEN k ELSE n)
             ELSE (IF n + k > 0 THEN n + k ELSE 0)
    IN  SubSeq(data, 1, m)

\* data[i:] of Python for i >= 0
SliceFrom(data, i) ==
    LET n == Len(data)
    IN  SubSeq(data, (IF i < n THEN i ELSE n) + 1, n)

point_before(data, i) == SliceTo(data, Len(data) - i)

point_after(data, i) == SliceFrom(data, i)

\* numpy broadcasting of two one-dimensional operands: the result length,
\* or -1 for "operands could not be broadcast together"
BroadcastLen(m, n) ==
    IF m = n THEN m ELSE IF m = 1 THEN n ELSE IF n = 1 THEN m ELSE -1

RECURSIVE ISum(_)
ISum(s) == IF s = <<>> THEN 0 ELSE Head(s) + ISum(Tail(s))

MSD(data, i) ==
    LET before == point_before(data, i)
        after == point_after(data, i)
        len == BroadcastLen(Len(before), Len(after))
        b(k) == IF Len(before) = 1 THEN before[1] ELSE before[k]
        a(k) == IF Len(after) = 1 THEN after[1] ELSE after[k]
        SD == [k \in 1..len |->
                  (b(k)[1] - a(k)[1]) * (b(k)[1] - a(k)[1])
                + (b(k)[2] - a(k)[2]) * (b(k)[2] - a(k)[2])
                + (b(k)[3] - a(k)[3]) * (b(k)[3] - a(k)[3])]
    IN  IF len = -1 THEN Raise("ValueError")
        ELSE IF len = 0 THEN Return(DblSpecial("nan"))      \* mean of nothing
        ELSE Return(Dbl(Rat(ISum(SD), len)))

\* 2*(N - i)/i, for i # 0
Nind(data, i) == Rat(2 * (Len(data) - i), i)

\* the value m*sqrt(r) of sigma_var, for a finite m and r >= 0
Rooted(m, r) == [kind |-> "fin", m |-> m, r |-> r]

RootedNaN == [kind |-> "nan", m |-> RInt(0), r |-> RInt(0)]

\* MSD(data, i)*np.sqrt(2/(Nind(data, i) - 1)) on Python numbers: MSD is
\* evaluated first, a zero divisor raises, the root of a negative is NaN
sigma_var(data, i) ==
    LET msd == MSD(data, i)
        divisor == RAdd(Nind(data, i), RInt(-1))
        ratio == RDiv(RInt(2), divisor)
    IN  IF msd.status = "raise" THEN msd
        ELSE IF divisor.n = 0 THEN Raise("ZeroDivisionError")
        ELSE IF msd.value.kind = "nan" \/ RLess(ratio, RInt(0))
        THEN Return(RootedNaN)
        ELSE Return(Rooted(msd.value.q, ratio))

\* range(start, stop, step) and np.arange(start, stop, step), step >= 1
Range(start, stop, step) ==
    LET cnt == IF stop <= start THEN 0 ELSE ((stop - start - 1) \div step) + 1
    IN  [k \in 1..cnt |-> start + (k - 1) * step]

CGW_analysis(diffusion_object, max_lag_time, down_sample) ==
    LET counter == Range(1, max_lag_time, down_sample)
        lags == Range(1, max_lag_time, down_sample)
        msd(k) == MSD(diffusion_object.data, lags[k])
        sig(k) == sigma_var(diffusion_object.data, lags[k])
        failing == {k \in 1..Len(lags) :
                      msd(k).status = "raise" \/ sig(k).status = "raise"}
        first == CHOOSE k \in failing : \A j \in failing : k <= j
    IN  IF failing # {}
        THEN (IF msd(first).status = "raise" THEN msd(first) ELSE sig(first))
        ELSE Return([msd_array |-> [k \in 1..Len(lags) |-> msd(k).value],
                     sigma_var_array |-> [k \in 1..Len(lags) |-> sig(k).value],
                     counter |-> counter])

line_fit3D(tau, D) == RMul(RInt(6), RMul(D, tau))

Lags == 1..MaxLag

CallMSD ==
    /\ call = NoCall
    /\ \E i \in Lags :
        /\ call' = [op |-> "MSD", i |-> i]
        /\ ret' = MSD(obj.data, i)
        /\ UNCHANGED <<obj, evals>>

CallNind ==
    /\ call = NoCall
    /\ \E i \in Lags :
        /\ call' = [op |-> "Nind", i |-> i]
        /\ ret' = Return(Dbl(Nind(obj.data, i)))
        /\ UNCHANGED <<obj, evals>>

CallSigmaVar ==
    /\ call = NoCall
    /\ \E i \in Lags :
        /\ call' = [op |-> "sigma_var", i |-> i]
        /\ ret' = sigma_var(obj.data, i)
        /\ UNCHANGED <<obj, evals>>

CallCGW ==
    /\ call = NoCall
    /\ \E max_lag_time \in 0..MaxLag, down_sample \in 1..MaxStride :
        /\ call' = [op |-> "CGW_analysis", max_lag_time |-> max_lag_time,
                    down_sample |-> down_sample]
        /\ ret' = CGW_analysis(obj, max_lag_time, down_sample)
        /\ UNCHANGED <<obj, evals>>

CallLineFit ==
    /\ call = NoCall
    /\ \E tau \in Lags, D \in Thetas :
        /\ call' = [op |-> "line_fit3D", tau |-> tau, D |-> D]
        /\ ret' = Return(Dbl(line_fit3D(RInt(tau), D)))
        /\ UNCHANGED <<obj, evals>>

NextMSD == CallMSD \/ CallNind \/ CallSigmaVar \/ CallCGW \/ CallLineFit

SpecMSD == Init /\ [][NextMSD]_vars

(***************************************************************************)
(* data_analysis.py: grid-search maximum likelihood.  A grid point D is    *)
(* kept as its base-10 logarithm times the number of grid steps, an        *)
(* integer that orders the grid as D does.  The logarithm of the           *)
(* likelihood cannot be evaluated exactly here: the curve is any function  *)
(* of D whose values are multiples of a quarter, loglik_of.                *)
(***************************************************************************)
\* np.logspace(lower_bound, upper_bound, intervals)
logspace(lower, upper, num) ==
    LET scale == IF num > 1 THEN num - 1 ELSE 1
    IN  [k \in 1..num |-> lower * scale + (k - 1) * (upper - lower)]

\* the 0.5 of the confidence band, in quarter units
half == 2

\* np.argmax: the first index of the maximum
argmax(s) == CHOOSE k \in 1..Len(s) :
                /\ \A j \in 1..Len(s) : s[j] <= s[k]
                /\ \A j \in 1..(k - 1) : s[j] < s[k]

SeqMax(s) == s[argmax(s)]

SetMin(S) == CHOOSE v \in S : \A w \in S : v <= w

SetMax(S) == CHOOSE v \in S : \A w \in S : w <= v

\* max_likelihood_estimation with an inclusive band, >= in place of >
max_likelihood_estimation_inclusive(loglik_of, lower, upper, intervals) ==
    LET D == logspace(lower, upper, intervals)
        loglikelihood == [k \in 1..intervals |-> loglik_of[D[k]]]
        maxindex == argmax(loglikelihood)
        D_range == {D[k] : k \in {j \in 1..intervals :
                        loglikelihood[j] >= SeqMax(loglikelihood) - half}}
    IN  IF intervals = 0 THEN Raise("ValueError")
        ELSE IF D_range = {} THEN Raise("ValueError")
        ELSE Return([D |-> D, best |-> D[maxindex], loglikelihood |-> loglikelihood,
                     ci_min |-> SetMin(D_range), ci_max |-> SetMax(D_range)])

max_likelihood_estimation(loglik_of, lower, upper, intervals) ==
    LET D == logspace(lower, upper, intervals)
        loglikelihood == [k \in 1..intervals |-> loglik_of[D[k]]]
        maxindex == argmax(loglikelihood)
        D_range == {D[k] : k \in {j \in 1..intervals :
                        loglikelihood[j] > SeqMax(loglikelihood) - half}}
    IN  IF intervals = 0 THEN Raise("ValueError")         \* argmax of nothing
        ELSE IF D_range = {} THEN Raise("ValueError")     \* min of nothing
        ELSE Return([D |-> D, best |-> D[maxindex], loglikelihood |-> loglikelihood,
                     ci_min |-> SetMin(D_range), ci_max |-> SetMax(D_range)])

GridValues(lower, upper, num) == {logspace(lower, upper, num)[k] : k \in 1..num}

InitMLE ==
    /\ obj \in {diffusion(t) : t \in {u \in Tables3D : Len(u) = 2}}
    /\ call = NoCall
    /\ ret = NoRet
    /\ evals = 0

CallMLE ==
    /\ call = NoCall
    /\ \E lower \in 0..MaxExp, upper \in 0..MaxExp, intervals \in 0..MaxGrid :
        \E loglik_of \in [GridValues(lower, upper, intervals) -> -MaxDrop..0] :
            /\ call' = [op |-> "max_likelihood_estimation", lower_bound |-> lower,
                        upper_bound |-> upper, intervals |-> intervals,
                        loglik_of |-> loglik_of]
            /\ ret' = max_likelihood_estimation(loglik_of, lower, upper, intervals)
            /\ evals' = intervals
            /\ UNCHANGED obj

NextMLE == CallMLE

SpecMLE == InitMLE /\ [][NextMLE]_vars

(***************************************************************************)
(* Construction.  A raw table has dim spatial coordinates per row, then    *)
(* the measurement uncertainty, then (has_time) a timestamp.               *)
(***************************************************************************)
RawTables(dim, has_time) ==
    UNION {{[k \in 1..n |-> w[k] \o <<sg[k]>> \o (IF has_time THEN <<k>> ELSE <<>>)] :
              w \in Walks(dim, n), sg \in [1..n -> Sigmas]} : n \in 2..MaxN}

NoObject == [ok |-> FALSE, data |-> <<>>, n |-> 0, initial_position |-> <<>>,
             x |-> <<>>, y |-> <<>>, z |-> <<>>, sigma |-> <<>>]

InitCtor ==
    /\ obj = NoObject
    /\ \E dim \in 1..MaxDim, has_time \in BOOLEAN :
        \E data \in RawTables(dim, has_time) :
            call = [op |-> "pending", dim |-> dim, has_time |-> has_time,
                    data |-> data]
    /\ ret = NoRet
    /\ evals = 0

Construct ==
    /\ call.op = "pending"
    /\ obj' = diffusion(call.data)
    /\ call' = [call EXCEPT !.op = "__init__"]
    /\ ret' = IF diffusion(call.data).ok THEN Return(NaN) ELSE Raise("IndexError")
    /\ UNCHANGED evals

Translate ==
    /\ call.op = "__init__"
    /\ obj.ok
    /\ \E offset \in 0..MaxOffset :
        /\ call' = [op |-> "translate", dim |-> call.dim, has_time |-> call.has_time,
                    data |-> call.data, offset |-> offset]
        /\ ret' = [status |-> "return", exc |-> "", value |-> translate(obj, offset)]
        /\ UNCHANGED <<obj, evals>>

NextCtor == Construct \/ Translate

SpecCtor == InitCtor /\ [][NextCtor]_vars

(***************************************************************************)
(* Properties.                                                             *)
(***************************************************************************)

\* C1: log_posterior returns -infinity without evaluating log_likelihood
\* whenever the log-prior of theta is -infinity (every theta <= 0 and every
\* theta outside the prior bounds); when the log-prior is finite it
\* evaluates log_likelihood exactly once and returns log_prior + log_likelihood
\* (or lets the exception of log_likelihood through).
C1_ShortCircuit ==
    call.op = "log_posterior" =>
        LET prior == log_prior(call.theta)
            ll == log_likelihood(call.theta, obj, call.tau, call.parameter,
                                 call.known, call.np_theta)
            outside == \/ RLeq(call.theta, RInt(0))
                       \/ RLess(call.theta, RInt(lower_bound))
                       \/ RLess(RInt(upper_bound), call.theta)
        IN  /\ outside => prior.kind = "ninf"
            /\ prior.kind = "ninf" => (ret = Return(NInf) /\ evals = 0)
            /\ prior.kind = "fin" =>
                  /\ evals = 1
                  /\ ll.status = "return" => ret = Return(FAdd(prior, ll.value))
                  /\ ll.status = "raise" => ret = ll

\* a posterior call at a non-positive theta that returned -infinity with no
\* likelihood evaluation
C1_Witness ==
    /\ call.op = "log_posterior"
    /\ RLeq(call.theta, RInt(0))
    /\ ret = Return(NInf)
    /\ evals = 0

\* the diffusion coefficient the Stokes-Einstein relation gives for the
\* unknown theta named parameter and the two known variables
DerivedD(parameter, theta, known) ==
    LET mu == IF parameter = "mu" THEN theta
              ELSE IF parameter = "a" THEN known[1] ELSE known[2]
        T == IF parameter = "T" THEN theta ELSE known[2]
        a == IF parameter = "a" THEN theta ELSE known[1]
    IN  RDiv(RMul(RInt(kb_over_pi), T), RMul(RInt(6), RMul(mu, a)))

\* C2: log_likelihood with the unknown named a, mu or T (positive, the other
\* two known) returns what log_likelihood with unknown D returns at the
\* diffusion coefficient derived from the Stokes-Einstein relation.
C2_ParameterIdentification ==
    (/\ call.op = "log_likelihood"
     /\ call.parameter \in {"a", "mu", "T"}
     /\ call.theta.n > 0) =>
        /\ ret.status = "return"
        /\ FEq(ret.value,
               log_likelihood(DerivedD(call.parameter, call.theta, call.known), obj,
                              call.tau, "D", <<>>, call.np_theta).value)

\* the likelihood of the per-step formula: N-1 terms, step k with variance
\* 6*D*tau + sigma_k^2 + sigma_(k+1)^2
PerStepLikelihood(D, data, sigma, tau) ==
    LET steps == Len(data) - 1
        var == [k \in 1..steps |->
                   RAdd(RMul(RInt(6 * tau), D),
                        RInt(sigma[k] * sigma[k] + sigma[k + 1] * sigma[k + 1]))]
        quad == [k \in 1..steps |->
                   RDiv(RInt(distance2(data)[k]), RMul(RInt(2), var[k]))]
    IN  Fin(steps, RProd(var), RSum(quad), <<>>)

\* C3: log_likelihood of a trajectory of N >= 2 records is the sum of exactly
\* N-1 per-step terms, step k using the diffusive variance plus the
\* measurement variances of both records of the step.
C3_PerStepVariance ==
    (/\ call.op = "log_likelihood"
     /\ call.parameter = "D"
     /\ call.theta.n > 0) =>
        ret = Return(PerStepLikelihood(call.theta, obj.data, obj.sigma, call.tau))

\* C4: every likelihood or posterior evaluation at a non-positive physical
\* parameter returns -infinity: no exception, no NaN, no finite value.
C4_InfeasibleSignal ==
    (\/ /\ call.op \in {"log_likelihood", "log_posterior"}
        /\ call.parameter \in ValidParameters
        /\ call.theta.n <= 0
     \/ /\ call.op \in {"log_likelihood3", "log_posterior3"}
        /\ \E j \in 1..3 : call.theta[j].n <= 0) =>
        ret = Return(NInf)

\* C10: log_likelihood3 at positive (mu, T, a) returns what log_likelihood
\* returns at D = kb*T/(6*pi*mu*a) for the same trajectory and tau.
C10_ImplementationsAgree ==
    (/\ call.op = "log_likelihood3"
     /\ \A j \in 1..3 : call.theta[j].n > 0) =>
        /\ ret.status = "return"
        /\ FEq(ret.value,
               log_likelihood(DerivedD("a", call.theta[3],
                                       <<call.theta[1], call.theta[2]>>),
                              obj, call.tau, "D", <<>>, call.np_theta).value)

\* C5: for a lag i at or beyond the trajectory length N both slices of MSD
\* are empty and MSD returns NaN without raising; for 1 <= i < N the series
\* has N-i elements pairing record k with record k+i.
C5_LagBeyondLength ==
    call.op = "MSD" =>
        LET N == Len(obj.data)
            i == call.i
            before == point_before(obj.data, i)
            after == point_after(obj.data, i)
        IN  /\ i >= N => /\ Len(before) = 0
                         /\ Len(after) = 0
                         /\ ret = Return(DblSpecial("nan"))
            /\ i < N => /\ Len(before) = N - i
                        /\ Len(after) = N - i
                        /\ \A k \in 1..(N - i) :
                              before[k] = obj.data[k] /\ after[k] = obj.data[k + i]
                        /\ ret.status = "return"

\* the lags CGW_analysis visits
VisitedLags(max_lag_time, down_sample) ==
    {Range(1, max_lag_time, down_sample)[k] :
        k \in 1..Len(Range(1, max_lag_time, down_sample))}

\* C6: for every lag 1 <= i < N sigma_var returns a value, NaN or infinite
\* when N_independent(i) - 1 <= 0, and raises nothing, so that CGW_analysis
\* over such lags completes and returns its arrays.
C6_DegenerateSignal ==
    /\ (call.op = "sigma_var" /\ call.i < Len(obj.data)) =>
          /\ ret.status = "return"
          /\ RLeq(Nind(obj.data, call.i), RInt(1)) => ret.value.kind # "fin"
    /\ (/\ call.op = "CGW_analysis"
        /\ \A i \in VisitedLags(call.max_lag_time, call.down_sample) :
              i < Len(obj.data)) =>
          ret.status = "return"

\* C8: CGW_analysis returns three sequences of one length, the lags being
\* 1, 1+s, 1+2s, ... below L, entry k being MSD and sigma_var at lag 1+k*s
\* on the unmodified data; all three are empty when L <= 1.
C8_OutputShape ==
    call.op = "CGW_analysis" =>
        LET L == call.max_lag_time
            s == call.down_sample
            cnt == Cardinality({i \in 1..(L - 1) : (i - 1) % s = 0})
        IN  /\ ret.status = "return"
            /\ Len(ret.value.counter) = cnt
            /\ Len(ret.value.msd_array) = cnt
            /\ Len(ret.value.sigma_var_array) = cnt
            /\ \A k \in 1..cnt :
                  /\ ret.value.counter[k] = 1 + (k - 1) * s
                  /\ MSD(obj.data, 1 + (k - 1) * s) = Return(ret.value.msd_array[k])
                  /\ sigma_var(obj.data, 1 + (k - 1) * s)
                        = Return(ret.value.sigma_var_array[k])

\* C9: construction succeeds for every table of 1, 2 or 3 spatial
\* dimensions, reading the uncertainty from the uncertainty column and
\* taking the missing coordinates as zero, and fails for every other
\* dimensionality.
C9_DimensionCheck ==
    call.op = "__init__" =>
        /\ call.dim \in 1..3 =>
              /\ obj.ok
              /\ obj.sigma = Column(call.data, call.dim)
              /\ call.dim < 3 => \A k \in 1..Len(obj.z) : obj.z[k] = 0
              /\ call.dim < 2 => \A k \in 1..Len(obj.y) : obj.y[k] = 0
        /\ call.dim \notin 1..3 => (~obj.ok /\ ret.status = "raise")

\* non-decreasing up to a peak, non-increasing after it
Unimodal(s) ==
    \E p \in 1..Len(s) :
        /\ \A k \in 1..(p - 1) : s[k] <= s[k + 1]
        /\ \A k \in p..(Len(s) - 1) : s[k] >= s[k + 1]

====
